---- MODULE Spec2Model ----
\* State-machine model of i.hyper.rgb (src/i.hyper.rgb.py): wavelength catalog
\* extraction, nearest-band selection, the statistic planner and the RGB/CMYK
\* composite assembly against the external raster store.
EXTENDS Integers, Sequences, FiniteSets, TLC

\* ---------------------------------------------------------------- bounds
MaxDepths == 3        \* largest band stack explored by the selection runs
MaxTarget == 8        \* selection targets range over 0..MaxTarget
MaxBandList == 2      \* longest band_indices list handed to calculate_statistic
MaxAsmDepths == 2     \* largest band stack explored by the assembly runs

\* ---------------------------------------------------------------- text
\* A text is a sequence of characters; a word that the program never looks
\* inside ("units", "title", a raster name) stands as one character.
Digits == {"0", "1", "2", "3", "4", "5", "6", "7", "8", "9"}

DigitValue(c) ==
  CASE c = "0" -> 0 [] c = "1" -> 1 [] c = "2" -> 2 [] c = "3" -> 3 [] c = "4" -> 4
    [] c = "5" -> 5 [] c = "6" -> 6 [] c = "7" -> 7 [] c = "8" -> 8 [] c = "9" -> 9

DigitChar(n) ==
  CASE n = 0 -> "0" [] n = 1 -> "1" [] n = 2 -> "2" [] n = 3 -> "3" [] n = 4 -> "4"
    [] n = 5 -> "5" [] n = 6 -> "6" [] n = 7 -> "7" [] n = 8 -> "8" [] n = 9 -> "9"

\* str(n) / f"{n}" for a natural number.
RECURSIVE ToText(_)
ToText(n) == IF n < 10 THEN <<DigitChar(n)>> ELSE ToText(n \div 10) \o <<DigitChar(n % 10)>>

None == "None"

\* str.strip(): drop leading and trailing blanks.
RECURSIVE LStrip(_)
LStrip(s) == IF s # <<>> /\ Head(s) = " " THEN LStrip(Tail(s)) ELSE s

RECURSIVE RStrip(_)
RStrip(s) == IF s # <<>> /\ s[Len(s)] = " " THEN RStrip(SubSeq(s, 1, Len(s) - 1)) ELSE s

Strip(s) == RStrip(LStrip(s))

\* Decimal value of a digit string.
RECURSIVE DecimalValue(_)
DecimalValue(s) == IF s = <<>> THEN 0 ELSE 10 * DecimalValue(SubSeq(s, 1, Len(s) - 1)) + DigitValue(s[Len(s)])

\* float(text) on the texts of this model (digits, blanks, "=" and the
\* non-numeric "x"): raises ValueError (ok = FALSE) unless the text, blanks
\* stripped, is a non-empty digit string. Signs, fractions, exponents, inf
\* and nan are outside the texts explored.
Float(s) ==
  LET t == Strip(s)
  IN IF t # <<>> /\ \A i \in DOMAIN t : t[i] \in Digits
     THEN [ok |-> TRUE, val |-> DecimalValue(t)]
     ELSE [ok |-> FALSE, val |-> 0]

\* str.lower() on one token.
Lower(c) == IF c = "Wavelength" THEN "wavelength" ELSE IF c = "WAVELENGTH" THEN "wavelength" ELSE c

\* 'wavelength' in line.lower()
HasWavelengthToken(line) == \E i \in DOMAIN line : Lower(line[i]) = "wavelength"

\* line.split('='): the parts between the '=' characters (always >= 1 part).
RECURSIVE Split(_)
Split(line) ==
  IF \A i \in DOMAIN line : line[i] # "="
  THEN <<line>>
  ELSE LET p == CHOOSE i \in DOMAIN line : line[i] = "=" /\ \A j \in 1..(i - 1) : line[j] # "="
       IN <<SubSeq(line, 1, p - 1)>> \o Split(SubSeq(line, p + 1, Len(line)))

\* sep.join(items) over texts.
RECURSIVE Join(_, _)
Join(items, sep) ==
  IF items = <<>> THEN <<>>
  ELSE IF Len(items) = 1 THEN items[1]
  ELSE items[1] \o sep \o Join(Tail(items), sep)

\* ---------------------------------------------------------------- dict
\* A Python dict keeps insertion order: a sequence of <<key, value>> pairs.
\* Assigning an existing key replaces its value and keeps its position.
DictHas(d, k) == \E i \in DOMAIN d : d[i][1] = k

DictGet(d, k) == d[CHOOSE i \in DOMAIN d : d[i][1] = k][2]

DictSet(d, k, v) ==
  IF DictHas(d, k)
  THEN [i \in DOMAIN d |-> IF d[i][1] = k THEN <<k, v>> ELSE d[i]]
  ELSE Append(d, <<k, v>>)

DictKeys(d) == [i \in DOMAIN d |-> d[i][1]]

KeySet(d) == {d[i][1] : i \in DOMAIN d}

Abs(x) == IF x < 0 THEN -x ELSE x

\* ---------------------------------------------------------------- store
\* What r.support -n returns for one band: the read fails, or a text block
\* (a sequence of lines).
ReadFails == [ok |-> FALSE, lines |-> <<>>]

Block(ls) == [ok |-> TRUE, lines |-> ls]

MetaBlocks ==
  { ReadFails,
    Block(<< <<"units", "=", "x">> >>),
    Block(<< <<"wavelength", " ", "4">> >>),
    Block(<< <<"Wavelength">>, <<"wavelength", "=", "6">> >>),
    Block(<< <<"wavelength", "=", "x">> >>),
    Block(<< <<"wavelength", "=", "x">>, <<"wavelength", "=", "6">> >>),
    Block(<< <<"wavelength", "=", "4", "=", "6">>, <<"units", "=", "x">> >>),
    Block(<< <<"wavelength", "=", "4">>, <<"wavelength", "=", "6">> >>),
    Block(<< <<"title">>, <<"WAVELENGTH", "=", " ", "6", " ">> >>),
    Block(<< <<"wavelength", "=", "1", "0">> >>) }

VARIABLES
  depths,            \* info['depths'] of the input 3D raster
  metadata,          \* band index -> what r.support returns for that band
  info_ok,           \* whether gs.raster3d_info succeeds
  pc,                \* position of the selection / statistic run
  wavelengths,       \* catalog returned by get_band_wavelengths
  warnings,          \* gs.warning messages of the selection run
  target_wavelength, \* argument of find_closest_band
  closest,           \* <<band, closest_wl>> returned by find_closest_band
  band_indices,      \* argument of calculate_statistic
  statistic,         \* argument of calculate_statistic
  stat_result,       \* outcome of calculate_statistic
  options,           \* the parsed options of an assembly (gs.parser)
  flags,             \* the parsed flags of an assembly
  run,               \* the assembly: position, locals, store effects, messages
  twin_stat,         \* the same assembly run with statistic=mean
  twin_cb            \* the same assembly run with colorblind=none

storeVars == <<depths, metadata, info_ok>>

selVars == <<pc, wavelengths, warnings, target_wavelength, closest, band_indices,
             statistic, stat_result>>

asmVars == <<options, flags, run, twin_stat, twin_cb>>

vars == <<storeVars, selVars, asmVars>>

\* ---------------------------------------------------------------- get_band_wavelengths
NoMetadataWarning == <<"No wavelength metadata found. Using band numbers as wavelengths.">>

\* The inner loop over metadata.split('\n') for band i, from line j on.
\* Returns the catalog after the band: the first line that contains the token
\* and splits into exactly two parts is parsed; a parse failure raises and the
\* bare except skips the band.
RECURSIVE ScanLines(_, _, _, _)
ScanLines(wl, lines, j, i) ==
  IF j > Len(lines) THEN wl
  ELSE IF HasWavelengthToken(lines[j]) /\ Len(Split(lines[j])) = 2
       THEN LET f == Float(Strip(Split(lines[j])[2]))
            IN IF f.ok THEN DictSet(wl, f.val, i) ELSE wl
       ELSE ScanLines(wl, lines, j + 1, i)

\* One iteration of the loop over bands: try/except around the metadata read.
ScanBand(wl, meta, i) ==
  IF ~meta[i].ok THEN wl ELSE ScanLines(wl, meta[i].lines, 1, i)

\* for i in range(1, depths + 1)
RECURSIVE ScanBands(_, _, _, _)
ScanBands(wl, meta, i, n) ==
  IF i > n THEN wl ELSE ScanBands(ScanBand(wl, meta, i), meta, i + 1, n)

\* Faulty variant: range(1, depths) leaves out the last band.
BandNumberCatalogShort(n) == [i \in 1..(n - 1) |-> <<i, i>>]

\* {float(i): i for i in range(1, depths + 1)}
BandNumberCatalog(n) == [i \in 1..n |-> <<i, i>>]

get_band_wavelengths(infoOk, n, meta) ==
  IF ~infoOk
  THEN [status |-> "fatal", wavelengths |-> <<>>, warnings |-> <<>>]
  ELSE LET scanned == ScanBands(<<>>, meta, 1, n)
       IN IF scanned = <<>>
          THEN [status |-> "ok", wavelengths |-> BandNumberCatalog(n),
                warnings |-> <<NoMetadataWarning>>]
          ELSE [status |-> "ok", wavelengths |-> scanned, warnings |-> <<>>]

\* ---------------------------------------------------------------- find_closest_band
\* min(keys, key=...) returns the first key, in iteration order, whose
\* distance is not beaten by a strictly smaller one.
\* Faulty variant: key=lambda x: x - target_wavelength (the abs() is lost).
RECURSIVE MinBySignedDistance(_, _, _, _)
MinBySignedDistance(keys, i, best, target) ==
  IF i > Len(keys) THEN best
  ELSE MinBySignedDistance(keys, i + 1,
                           IF keys[i] - target < best - target THEN keys[i] ELSE best,
                           target)

\* Faulty variant: a later key replaces the best one on an equal distance.
RECURSIVE MinByDistanceLast(_, _, _, _)
MinByDistanceLast(keys, i, best, target) ==
  IF i > Len(keys) THEN best
  ELSE MinByDistanceLast(keys, i + 1,
                         IF Abs(keys[i] - target) <= Abs(best - target) THEN keys[i] ELSE best,
                         target)

RECURSIVE MinByDistance(_, _, _, _)
MinByDistance(keys, i, best, target) ==
  IF i > Len(keys) THEN best
  ELSE MinByDistance(keys, i + 1,
                     IF Abs(keys[i] - target) < Abs(best - target) THEN keys[i] ELSE best,
                     target)

find_closest_band(target, wl) ==
  LET closest_wl == MinByDistance(DictKeys(wl), 2, DictKeys(wl)[1], target)
  IN <<DictGet(wl, closest_wl), closest_wl>>

\* ---------------------------------------------------------------- selection runs
Unset == "unset"

InitStore(maxDepths, blocks) ==
  /\ depths \in 1..maxDepths
  /\ metadata \in [1..depths -> blocks]
  /\ info_ok \in BOOLEAN

\* The selection and planner runs start no assembly.
NoAssembly ==
  /\ options = Unset
  /\ flags = Unset
  /\ run = Unset
  /\ twin_stat = Unset
  /\ twin_cb = Unset

InitSelect ==
  /\ InitStore(MaxDepths, MetaBlocks)
  /\ pc = "scan"
  /\ wavelengths = <<>>
  /\ warnings = <<>>
  /\ target_wavelength = Unset
  /\ closest = Unset
  /\ band_indices = <<>>
  /\ statistic = Unset
  /\ stat_result = Unset
  /\ NoAssembly

GetBandWavelengths ==
  /\ pc = "scan"
  /\ LET r == get_band_wavelengths(info_ok, depths, metadata)
     IN /\ wavelengths' = r.wavelengths
        /\ warnings' = r.warnings
        /\ pc' = IF r.status = "ok" THEN "select" ELSE "fatal"
  /\ UNCHANGED <<storeVars, asmVars, target_wavelength, closest, band_indices,
                 statistic, stat_result>>

FindClosestBand ==
  /\ pc = "select"
  /\ \E t \in 0..MaxTarget :
       /\ target_wavelength' = t
       /\ closest' = find_closest_band(t, wavelengths)
  /\ pc' = "selected"
  /\ UNCHANGED <<storeVars, asmVars, wavelengths, warnings, band_indices,
                 statistic, stat_result>>

NextSelect == GetBandWavelengths \/ FindClosestBand

SpecSelect == InitSelect /\ [][NextSelect]_vars

\* ---------------------------------------------------------------- calculate_statistic
\* Statistic names are texts, one character per element (startswith looks
\* inside them).
S_mean == <<"m", "e", "a", "n">>
S_median == <<"m", "e", "d", "i", "a", "n">>
S_mode == <<"m", "o", "d", "e">>
S_min == <<"m", "i", "n">>
S_max == <<"m", "a", "x">>
S_sd1_pos == <<"s", "d", "1", "_", "p", "o", "s">>
S_sd2_pos == <<"s", "d", "2", "_", "p", "o", "s">>
S_sd3_pos == <<"s", "d", "3", "_", "p", "o", "s">>
S_sd1_neg == <<"s", "d", "1", "_", "n", "e", "g">>
S_sd2_neg == <<"s", "d", "2", "_", "n", "e", "g">>
S_sd3_neg == <<"s", "d", "3", "_", "n", "e", "g">>
S_minimum == <<"m", "i", "n", "i", "m", "u", "m">>
S_maximum == <<"m", "a", "x", "i", "m", "u", "m">>
S_sd == <<"s", "d">>

\* The values the option parser admits for statistic=.
Statistics ==
  {S_mean, S_median, S_mode, S_min, S_max, S_sd1_pos, S_sd2_pos, S_sd3_pos,
   S_sd1_neg, S_sd2_neg, S_sd3_neg}

\* str.startswith(prefix)
StartsWith(s, prefix) == Len(s) >= Len(prefix) /\ SubSeq(s, 1, Len(prefix)) = prefix

\* f"{raster3d}#{idx}"
BandName(raster3d, idx) == raster3d \o <<"#">> \o ToText(idx)

calculate_statistic(raster3d, indices, stat) ==
  LET temp_maps == [j \in DOMAIN indices |-> BandName(raster3d, indices[j])]
      expr == <<"(">> \o Join(temp_maps, <<" + ">>) \o <<") / ">> \o ToText(Len(temp_maps))
  IN IF stat = S_mean THEN [status |-> "returned", value |-> <<expr, None>>]
     ELSE IF stat = S_median THEN [status |-> "returned", value |-> <<temp_maps, S_median>>]
     ELSE IF stat = S_mode THEN [status |-> "returned", value |-> <<temp_maps, S_mode>>]
     ELSE IF stat = S_min THEN [status |-> "returned", value |-> <<temp_maps, S_minimum>>]
     ELSE IF stat = S_max THEN [status |-> "returned", value |-> <<temp_maps, S_maximum>>]
     ELSE IF StartsWith(stat, S_sd) THEN [status |-> "returned", value |-> <<temp_maps, stat>>]
     ELSE [status |-> "fatal", value |-> <<"Unknown statistic: ", stat>>]

\* Statistic values tried on the planner: the admitted ones and strings
\* outside the option list.
StatisticInputs ==
  Statistics \cup {<<"s", "d", "4", "_", "p", "o", "s">>, <<"s", "d", "e", "v">>, <<"s", "d">>, <<"a", "v", "e", "r", "a", "g", "e">>, <<"M", "E", "A", "N">>, <<>>}

InputRaster == <<"hyper">>

InitStatistic ==
  /\ depths = MaxDepths
  /\ metadata = [b \in 1..depths |-> ReadFails]
  /\ info_ok = TRUE
  /\ pc = "plan"
  /\ wavelengths = <<>>
  /\ warnings = <<>>
  /\ target_wavelength = Unset
  /\ closest = Unset
  /\ band_indices \in UNION {[1..n -> 1..depths] : n \in 0..MaxBandList}
  /\ statistic \in StatisticInputs
  /\ stat_result = Unset
  /\ NoAssembly

CalculateStatistic ==
  /\ pc = "plan"
  /\ stat_result' = calculate_statistic(InputRaster, band_indices, statistic)
  /\ pc' = IF stat_result'.status = "fatal" THEN "fatal" ELSE "planned"
  /\ UNCHANGED <<storeVars, asmVars, wavelengths, warnings, target_wavelength,
                 closest, band_indices, statistic>>

NextStatistic == CalculateStatistic

SpecStatistic == InitStatistic /\ [][NextStatistic]_vars

\* C3: calculate_statistic ends in the fatal unknown-statistic error exactly
\* for the statistic values outside the enumerated set, and returns a plan
\* for every value inside it.
C3_UnknownStatisticFails ==
  pc \in {"planned", "fatal"} =>
    /\ statistic \notin Statistics => stat_result.status = "fatal"
    /\ statistic \in Statistics => stat_result.status = "returned"

\* ---------------------------------------------------------------- selection properties
\* A line of the shape the scan accepts: holds the token, exactly one '='.
KeyValueShape(line) == HasWavelengthToken(line) /\ Len(Split(line)) = 2

\* Band b records wavelength k: its read succeeds and the first line of the
\* accepted shape carries a value that parses to k.
Records(b, k) ==
  /\ metadata[b].ok
  /\ \E j \in DOMAIN metadata[b].lines :
       /\ KeyValueShape(metadata[b].lines[j])
       /\ \A h \in 1..(j - 1) : ~KeyValueShape(metadata[b].lines[h])
       /\ Float(Split(metadata[b].lines[j])[2]) = [ok |-> TRUE, val |-> k]

\* Every value some accepted line of some band parses to.
ParsedValues ==
  UNION { { Float(Split(metadata[b].lines[j])[2]).val :
              j \in {h \in DOMAIN metadata[b].lines : KeyValueShape(metadata[b].lines[h])} } :
          b \in 1..depths }

RecordedKeys == {k \in ParsedValues : \E b \in 1..depths : Records(b, k)}

Scanned == pc \in {"select", "selected"}

Entries == {wavelengths[i] : i \in DOMAIN wavelengths}

TiedKeys ==
  {k \in KeySet(wavelengths) :
     \A h \in KeySet(wavelengths) :
       Abs(k - target_wavelength) <= Abs(h - target_wavelength)}

\* C1: find_closest_band returns a catalog key together with the band the
\* catalog maps it to, and no catalog key is strictly nearer to the target.
C1_ClosestIsNearest ==
  pc = "selected" =>
    /\ <<closest[2], closest[1]>> \in Entries
    /\ \A k \in KeySet(wavelengths) :
         ~(Abs(k - target_wavelength) < Abs(closest[2] - target_wavelength))

C1_Witness ==
  /\ pc = "selected"
  /\ Cardinality(KeySet(wavelengths)) >= 3
  /\ closest[2] # wavelengths[1][1]
  /\ closest[2] # wavelengths[Len(wavelengths)][1]

\* C2: when the scan records no wavelength the catalog is exactly
\* {1.0:1, ..., N.0:N}; when it records at least one, every catalog entry
\* is a wavelength recorded from that band's metadata (nothing synthetic).
C2_FallbackCatalog ==
  Scanned =>
    IF RecordedKeys = {}
    THEN /\ Len(wavelengths) = depths
         /\ \A i \in 1..depths : wavelengths[i] = <<i, i>>
    ELSE /\ \A e \in Entries : Records(e[2], e[1])
         /\ KeySet(wavelengths) = RecordedKeys

C2_Witness ==
  /\ pc = "select"
  /\ depths >= 2
  /\ RecordedKeys = {}
  /\ \E b \in 1..depths : metadata[b].ok /\ \E j \in DOMAIN metadata[b].lines : HasWavelengthToken(metadata[b].lines[j])
  /\ \E b \in 1..depths : ~metadata[b].ok
  /\ wavelengths[depths] = <<depths, depths>>

\* C7 as stated: on a tie for the minimal distance the smaller wavelength is
\* returned, whatever the order of wavelengths along the bands.
C7_TieSmallestWavelength ==
  pc = "selected" => \A k \in TiedKeys : closest[2] <= k

\* The band whose scan first put key k into the catalog (the band number
\* itself in the band-number fallback catalog).
FirstRecordingBand(k) ==
  IF RecordedKeys = {} THEN k
  ELSE CHOOSE b \in 1..depths : Records(b, k) /\ \A h \in 1..(b - 1) : ~Records(h, k)

\* C7 amended: on a tie the key returned is the tied key that entered the
\* catalog first, i.e. the one first recorded by the lowest band index.
C7_TieFirstRecorded ==
  pc = "selected" =>
    /\ closest[2] \in TiedKeys
    /\ \A k \in TiedKeys : FirstRecordingBand(closest[2]) <= FirstRecordingBand(k)

C7_Witness ==
  /\ pc = "selected"
  /\ \E k \in TiedKeys : k < closest[2]
  /\ \E b \in 1..depths : Records(b, closest[2]) /\ wavelengths[1] # <<closest[2], b>>

\* ---------------------------------------------------------------- assembly: helpers
OutputBase == <<"out">>

\* f"{output_base}_{color}"
output_map(o, color) == o.output \o <<"_", color>>

\* Faulty variant: the copy takes a reduced raster whenever statistic is not mean.
input_band_reduced(o, band) ==
  IF o.statistic = S_mean THEN o.input \o <<"#">> \o ToText(band)
  ELSE <<"tmp_">> \o o.statistic

\* f"{input_raster}#{band}"
input_band(o, band) == o.input \o <<"#">> \o ToText(band)

CopyCommand(src, dst, ok) == [cmd |-> "g.copy", src |-> src, dst |-> dst, ok |-> ok]

\* Faulty variant: the rescale reads the source band instead of the output raster.
RescaleCommandFromSource(o, band, out, ok) ==
  [cmd |-> "r.rescale", src |-> input_band(o, band), dst |-> out, ok |-> ok]

\* r.rescale input=output_map output=output_map to=0,255 overwrite=True
RescaleCommand(o, band, out, ok) ==
  [cmd |-> "r.rescale", src |-> out, dst |-> out, ok |-> ok]

GroupCommand(name, maps, ok) == [cmd |-> "i.group", src |-> maps, dst |-> name, ok |-> ok]

ColorblindWarning(t) ==
  <<"Colorblind adjustment for ", t, " selected but requires post-processing">>

ColorblindTypes == {"protanopia", "deuteranopia", "tritanopia"}

\* Faulty variant: the matrix is applied with one r.mapcalc per channel, in place.
apply_colorblind_adjustment_mapcalc(channels, colorblind_type) ==
  IF colorblind_type \notin ColorblindTypes
  THEN [channels |-> channels, cmds |-> <<>>, warnings |-> <<>>]
  ELSE [channels |-> channels,
        cmds |-> [j \in DOMAIN channels |->
                    [cmd |-> "r.mapcalc", src |-> channels, dst |-> channels[j], ok |-> TRUE]],
        warnings |-> <<>>]

\* Returns the channels it was given; the store commands it issued (none) and
\* the warnings it emitted.
apply_colorblind_adjustment(channels, colorblind_type) ==
  IF colorblind_type \notin ColorblindTypes
  THEN [channels |-> channels, cmds |-> <<>>, warnings |-> <<>>]
  ELSE [channels |-> channels, cmds |-> <<>>,
        warnings |-> <<ColorblindWarning(colorblind_type)>>]

InitRun ==
  [pc |-> "main", wavelengths |-> <<>>, channels |-> <<>>, output_maps |-> <<>>,
   cmds |-> <<>>, warnings |-> <<>>, rasters |-> {}, groups |-> {}]

\* ---------------------------------------------------------------- assembly: steps
\* main(): dispatch on colorspace.
main_step(r, o) ==
  IF o.colorspace = "rgb" THEN [r EXCEPT !.pc = "rgb_select"]
  ELSE IF o.colorspace = "cmyk" THEN [r EXCEPT !.pc = "cmyk_select"]
  ELSE [r EXCEPT !.pc = "fatal"]

\* Catalog lookup and band selection for a list of <<color, target text>>;
\* the channels dict is filled in request order.
RECURSIVE FillChannels(_, _, _, _)
FillChannels(d, requests, j, wl) ==
  IF j > Len(requests) THEN d
  ELSE FillChannels(DictSet(d, requests[j][1],
                            find_closest_band(Float(requests[j][2]).val, wl)[1]),
                    requests, j + 1, wl)

select_step(r, requests, nextPc) ==
  LET w == get_band_wavelengths(info_ok, depths, metadata)
  IN IF w.status = "fatal"
     THEN [r EXCEPT !.pc = "fatal"]
     ELSE [r EXCEPT !.pc = nextPc,
                    !.wavelengths = w.wavelengths,
                    !.warnings = @ \o w.warnings,
                    !.channels = FillChannels(<<>>, requests, 1, w.wavelengths),
                    !.output_maps = <<>>]

rgb_requests(o) ==
  << <<"red", o.red_wavelength>>, <<"green", o.green_wavelength>>,
     <<"blue", o.blue_wavelength>> >>

cmyk_requests(o) ==
  << <<"cyan", o.cyan_wavelength>>, <<"magenta", o.magenta_wavelength>>,
     <<"yellow", o.yellow_wavelength>>, <<"key", o.key_wavelength>> >>

\* The channel the loop is at: output_maps holds one name per finished one.
Current(r) == r.channels[Len(r.output_maps) + 1]

\* output_maps.append(output_map), then the next iteration or the loop's exit.
append_step(r, o, copyPc, exitPc) ==
  LET maps == Append(r.output_maps, output_map(o, Current(r)[1]))
  IN [r EXCEPT !.output_maps = maps,
               !.pc = IF Len(maps) < Len(r.channels) THEN copyPc ELSE exitPc]

\* Faulty variant: errors of g.copy are ignored and the loop goes on.
copy_step_ignoring_errors(r, o, n, ok, copyPc, rescalePc, exitPc) ==
  LET dst == output_map(o, Current(r)[1])
      issued == [r EXCEPT !.cmds = Append(@, CopyCommand(input_band(o, Current(r)[2]), dst, ok)),
                          !.rasters = IF ok THEN @ \cup {dst} ELSE @]
  IN IF n THEN [issued EXCEPT !.pc = rescalePc]
     ELSE append_step(issued, o, copyPc, exitPc)

\* gs.run_command('g.copy', ...): a failure raises and ends the run.
copy_step(r, o, n, ok, copyPc, rescalePc, exitPc) ==
  LET dst == output_map(o, Current(r)[1])
      issued == [r EXCEPT !.cmds = Append(@, CopyCommand(input_band(o, Current(r)[2]), dst, ok))]
  IN IF ~ok THEN [issued EXCEPT !.pc = "aborted"]
     ELSE LET copied == [issued EXCEPT !.rasters = @ \cup {dst}]
          IN IF n THEN [copied EXCEPT !.pc = rescalePc]
             ELSE append_step(copied, o, copyPc, exitPc)

\* gs.run_command('r.rescale', ...) under "if normalize".
rescale_step(r, o, ok, copyPc, exitPc) ==
  LET dst == output_map(o, Current(r)[1])
      issued == [r EXCEPT !.cmds = Append(@, RescaleCommand(o, Current(r)[2], dst, ok))]
  IN IF ~ok THEN [issued EXCEPT !.pc = "aborted"]
     ELSE append_step(issued, o, copyPc, exitPc)

\* if colorblind != 'none': apply_colorblind_adjustment(output_maps, colorblind)
\* (the returned list is dropped by the caller).
colorblind_step(r, o) ==
  IF o.colorblind # "none"
  THEN LET a == apply_colorblind_adjustment(r.output_maps, o.colorblind)
       IN [r EXCEPT !.cmds = @ \o a.cmds, !.warnings = @ \o a.warnings, !.pc = "rgb_group"]
  ELSE [r EXCEPT !.pc = "rgb_group"]

\* Faulty variant: the group is built from the selected bands' channels dict keyed
\* by band, so channels on one band collapse.
GroupInputByBand(r) ==
  LET bands == {r.channels[j][2] : j \in DOMAIN r.channels}
  IN [j \in 1..Cardinality(bands) |-> r.output_maps[j]]

\* input=','.join(output_maps)
GroupInput(r) == r.output_maps

\* gs.run_command('i.group', group=group_name, subgroup=group_name, input=...)
group_step(r, o, suffix, ok) ==
  LET group_name == o.output \o <<suffix>>
      issued == [r EXCEPT !.cmds = Append(@, GroupCommand(group_name, GroupInput(r), ok))]
  IN IF ~ok THEN [issued EXCEPT !.pc = "aborted"]
     ELSE [issued EXCEPT !.groups = @ \cup {[name |-> group_name, input |-> GroupInput(r)]},
                         !.pc = "done"]

\* One step of an assembly at its own position, with the store's answer ok.
Step(r, o, n, ok) ==
  CASE r.pc = "main" -> main_step(r, o)
    [] r.pc = "rgb_select" -> select_step(r, rgb_requests(o), "rgb_copy")
    [] r.pc = "rgb_copy" -> copy_step(r, o, n, ok, "rgb_copy", "rgb_rescale", "rgb_colorblind")
    [] r.pc = "rgb_rescale" -> rescale_step(r, o, ok, "rgb_copy", "rgb_colorblind")
    [] r.pc = "rgb_colorblind" -> colorblind_step(r, o)
    [] r.pc = "rgb_group" -> group_step(r, o, "_rgb", ok)
    [] r.pc = "cmyk_select" -> select_step(r, cmyk_requests(o), "cmyk_copy")
    [] r.pc = "cmyk_copy" -> copy_step(r, o, n, ok, "cmyk_copy", "cmyk_rescale", "cmyk_group")
    [] r.pc = "cmyk_rescale" -> rescale_step(r, o, ok, "cmyk_copy", "cmyk_group")
    [] r.pc = "cmyk_group" -> group_step(r, o, "_cmyk", ok)
    [] OTHER -> r

\* ---------------------------------------------------------------- assembly runs
T650 == <<"6", "5", "0">>
T550 == <<"5", "5", "0">>
T450 == <<"4", "5", "0">>
T490 == <<"4", "9", "0">>
T580 == <<"5", "8", "0">>
T570 == <<"5", "7", "0">>
T800 == <<"8", "0", "0">>

\* Store answers and option values the assembly runs range over.
AsmBlocks ==
  { ReadFails,
    Block(<< <<"wavelength", "=", "4">> >>),
    Block(<< <<"title">>, <<"WAVELENGTH", "=", " ", "6", " ">> >>) }

AsmTargets == {<<"5">>, <<"7">>}

AsmStatistics == {S_mean, S_median, S_sd2_neg}

ColorblindModes == {"none"} \cup ColorblindTypes

\* Input names: one unrelated to the output base, one that spells the red
\* channel's output raster name.
AsmInputs == {InputRaster, OutputBase \o <<"_", "red">>}

BaseOptions(inp, cs, st, cb) ==
  [input |-> inp, output |-> OutputBase, colorspace |-> cs, statistic |-> st,
   colorblind |-> cb, red_wavelength |-> T650, green_wavelength |-> T550,
   blue_wavelength |-> T450, cyan_wavelength |-> T490, magenta_wavelength |-> T580,
   yellow_wavelength |-> T570, key_wavelength |-> T800]

AsmOptions ==
  UNION { { [BaseOptions(x[1], "rgb", x[2], x[3]) EXCEPT !.red_wavelength = t[1],
                                               !.green_wavelength = t[2],
                                               !.blue_wavelength = t[3]] :
              t \in AsmTargets \X AsmTargets \X AsmTargets }
          \cup
          { [BaseOptions(x[1], "cmyk", x[2], x[3]) EXCEPT !.cyan_wavelength = t[1],
                                                !.magenta_wavelength = t[2],
                                                !.yellow_wavelength = t[3],
                                                !.key_wavelength = t[4]] :
              t \in AsmTargets \X AsmTargets \X AsmTargets \X AsmTargets } :
          x \in AsmInputs \X AsmStatistics \X ColorblindModes }

TwinStatOptions == [options EXCEPT !.statistic = S_mean]

TwinCbOptions == [options EXCEPT !.colorblind = "none"]

Init ==
  /\ InitStore(MaxAsmDepths, AsmBlocks)
  /\ pc = Unset
  /\ wavelengths = <<>>
  /\ warnings = <<>>
  /\ target_wavelength = Unset
  /\ closest = Unset
  /\ band_indices = <<>>
  /\ statistic = Unset
  /\ stat_result = Unset
  /\ options \in AsmOptions
  /\ flags \in [n : BOOLEAN]
  /\ run = InitRun
  /\ twin_stat = InitRun
  /\ twin_cb = InitRun

\* The assembly and its two twins take the step together, against the same
\* store answer.
Advance(ok) ==
  /\ run' = Step(run, options, flags.n, ok)
  /\ twin_stat' = Step(twin_stat, TwinStatOptions, flags.n, ok)
  /\ twin_cb' = Step(twin_cb, TwinCbOptions, flags.n, ok)
  /\ UNCHANGED <<storeVars, selVars, options, flags>>

Main == run.pc = "main" /\ Advance(TRUE)

RgbSelectBands == run.pc = "rgb_select" /\ Advance(TRUE)

RgbCopy == run.pc = "rgb_copy" /\ \E ok \in BOOLEAN : Advance(ok)

RgbRescale == run.pc = "rgb_rescale" /\ \E ok \in BOOLEAN : Advance(ok)

RgbColorblind == run.pc = "rgb_colorblind" /\ Advance(TRUE)

RgbGroup == run.pc = "rgb_group" /\ \E ok \in BOOLEAN : Advance(ok)

CmykSelectBands == run.pc = "cmyk_select" /\ Advance(TRUE)

CmykCopy == run.pc = "cmyk_copy" /\ \E ok \in BOOLEAN : Advance(ok)

CmykRescale == run.pc = "cmyk_rescale" /\ \E ok \in BOOLEAN : Advance(ok)

CmykGroup == run.pc = "cmyk_group" /\ \E ok \in BOOLEAN : Advance(ok)

Next ==
  \/ Main
  \/ RgbSelectBands \/ RgbCopy \/ RgbRescale \/ RgbColorblind \/ RgbGroup
  \/ CmykSelectBands \/ CmykCopy \/ CmykRescale \/ CmykGroup

Spec == Init /\ [][Next]_vars

\* ---------------------------------------------------------------- assembly properties
ChannelNames ==
  IF options.colorspace = "rgb" THEN <<"red", "green", "blue">>
  ELSE <<"cyan", "magenta", "yellow", "key">>

\* <outputBase>_<channel> for every channel, in request order.
ExpectedMaps == [j \in DOMAIN ChannelNames |-> options.output \o <<"_", ChannelNames[j]>>]

ExpectedGroupName ==
  options.output \o <<IF options.colorspace = "rgb" THEN "_rgb" ELSE "_cmyk">>

Cmds == run.cmds

AllOk == \A j \in DOMAIN Cmds : Cmds[j].ok

GroupIdx == {j \in DOMAIN Cmds : Cmds[j].cmd = "i.group"}

CopyIdx == {j \in DOMAIN Cmds : Cmds[j].cmd = "g.copy"}

SelectedBands == {run.channels[j][2] : j \in DOMAIN run.channels}

\* C4: with no store failure, one group registration is issued, after every
\* channel's copy (and rescale), named <outputBase>_rgb / _cmyk, listing the
\* output rasters of all channels in request order.
C4_GroupRegisteredOnce ==
  AllOk =>
    /\ Cardinality(GroupIdx) <= 1
    /\ run.pc = "done" => Cardinality(GroupIdx) = 1
    /\ \A g \in GroupIdx :
         /\ g = Len(Cmds)
         /\ Cmds[g].dst = ExpectedGroupName
         /\ Cmds[g].src = ExpectedMaps
         /\ run.groups = {[name |-> ExpectedGroupName, input |-> ExpectedMaps]}
         /\ \A c \in DOMAIN ExpectedMaps :
              \E j \in 1..(g - 1) :
                /\ Cmds[j].cmd = "g.copy" /\ Cmds[j].dst = ExpectedMaps[c]
                /\ flags.n => \E h \in (j + 1)..(g - 1) :
                                Cmds[h].cmd = "r.rescale" /\ Cmds[h].dst = ExpectedMaps[c]

C4_Witness ==
  /\ run.pc = "done"
  /\ options.colorspace = "cmyk"
  /\ flags.n
  /\ Len(run.wavelengths) >= 2
  /\ Cardinality(SelectedBands) = 1
  /\ Len(Cmds[Len(Cmds)].src) = 4

\* C5: a failed copy or rescale is the last command the run issues: the run
\* is aborted, no group exists, nothing is deleted and the rasters copied
\* for the earlier channels are still in the store.
C5_FailureAborts ==
  /\ \A j \in DOMAIN Cmds : Cmds[j].cmd \in {"g.copy", "r.rescale", "i.group"}
  /\ \A j \in DOMAIN Cmds :
       ~Cmds[j].ok =>
         /\ j = Len(Cmds)
         /\ run.pc = "aborted"
         /\ Cmds[j].cmd \in {"g.copy", "r.rescale"} => GroupIdx = {} /\ run.groups = {}
         /\ \A h \in 1..(j - 1) : Cmds[h].cmd = "g.copy" => Cmds[h].dst \in run.rasters
  /\ run.pc = "aborted" => Cmds # <<>> /\ ~Cmds[Len(Cmds)].ok

C5_Witness ==
  /\ run.pc = "aborted"
  /\ Cmds[Len(Cmds)].cmd = "r.rescale"
  /\ Cardinality(run.rasters) = 3
  /\ Len(run.output_maps) = 2

\* C6: with a colorblind mode other than none, apply_colorblind_adjustment
\* hands back the list it was given and issues no store command, and the
\* run's commands and store effects equal those of the run with mode none.
C6_ColorblindLeavesChannels ==
  options.colorblind # "none" =>
    /\ run.cmds = twin_cb.cmds
    /\ run.output_maps = twin_cb.output_maps
    /\ run.rasters = twin_cb.rasters
    /\ run.groups = twin_cb.groups
    /\ run.pc = "rgb_colorblind" =>
         /\ apply_colorblind_adjustment(run.output_maps, options.colorblind).channels
              = run.output_maps
         /\ apply_colorblind_adjustment(run.output_maps, options.colorblind).cmds = <<>>

C6_Witness ==
  /\ run.pc = "done"
  /\ options.colorspace = "rgb"
  /\ options.colorblind = "deuteranopia"
  /\ flags.n
  /\ ColorblindWarning("deuteranopia") \in {run.warnings[j] : j \in DOMAIN run.warnings}

\* C8: a completed assembly, RGB or CMYK, has emitted the post-processing
\* warning exactly when a colorblind mode other than none was requested.
C8_ColorblindWarningEmitted ==
  run.pc = "done" =>
    (options.colorblind # "none"
       <=> ColorblindWarning(options.colorblind) \in {run.warnings[j] : j \in DOMAIN run.warnings})

\* C9: a rescale is issued for a channel iff normalize is set, right after
\* that channel's copy and before the next one, reading and writing the
\* channel's own output raster; no copy or rescale writes a band of the
\* source stack (the rasters the copies read).
C9_RescaleIffNormalize ==
  /\ \A j \in DOMAIN Cmds :
       Cmds[j].cmd = "r.rescale" =>
         /\ flags.n
         /\ j > 1 /\ Cmds[j - 1].cmd = "g.copy" /\ Cmds[j - 1].ok
         /\ Cmds[j].src = Cmds[j - 1].dst
         /\ Cmds[j].dst = Cmds[j - 1].dst
  /\ \A j \in CopyIdx :
       /\ Cmds[j].dst = ExpectedMaps[Cardinality({h \in CopyIdx : h <= j})]
       /\ Cmds[j].ok /\ flags.n =>
            IF j < Len(Cmds) THEN Cmds[j + 1].cmd = "r.rescale"
            ELSE run.pc \in {"rgb_rescale", "cmyk_rescale"}
       /\ Cmds[j].ok /\ ~flags.n /\ j < Len(Cmds) => Cmds[j + 1].cmd # "r.rescale"
  /\ \A j \in DOMAIN Cmds :
       Cmds[j].cmd \in {"g.copy", "r.rescale"} =>
         /\ \A b \in 1..depths : Cmds[j].dst # options.input \o <<"#">> \o ToText(b)
         /\ \A h \in CopyIdx : Cmds[j].dst # Cmds[h].src

C9_Witness ==
  /\ run.pc = "done"
  /\ flags.n
  /\ options.colorspace = "cmyk"
  /\ Cardinality({j \in DOMAIN Cmds : Cmds[j].cmd = "r.rescale"}) = 4

====
